---- MODULE Spec2Model ----
(***************************************************************************)
(* Model of the vishwakarma_app_backend service: the send-OTP pipeline     *)
(* with its in-memory rate limiter (middleware/rateLimiter.js), the        *)
(* verify-OTP / register-user / me / update-profile flows of routes/auth.js *)
(* and the member list of routes/users.js over the User collection, and    *)
(* normalizePhone as a function of the phone alone.                        *)
(*                                                                         *)
(* Strings are processed character by character (Chars, Text), so that     *)
(* normalisation, validation and key derivation are computed, not assumed. *)
(* Time is Date.now() in milliseconds.                                     *)
(***************************************************************************)
EXTENDS Integers, Sequences, FiniteSets, TLC

VARIABLES
  now,             \* Date.now(), ms since the process started
  ticks,           \* how often the clock has advanced (bounded by MaxTicks)
  lastSweep,       \* time the cleanup interval last fired (0: process start)
  rateLimitStore,  \* the Map key -> [count, resetTime, blocked]
  sending,         \* number of send-otp requests awaiting the provider
  last,            \* history: the rate-limiter decision of the step just taken
  hist,            \* history: what the limiter has decided for the watched key
  resp,            \* history: the send-otp response of the step just taken
  unswept,         \* history: the Map as it would be had no sweep ever run
  born,            \* history: key -> when its entry was created and blocked
  users,           \* the User collection: _id -> [phone, name]
  tokens,          \* the session tokens issued so far
  verifying,       \* phones of verify-otp requests awaiting their findOne
  registering,     \* register-user requests awaiting their save (a bag)
  created,         \* history: _id -> the phone the profile was created with
  approved,        \* history: phones for which an OTP check was approved
  aresp,           \* history: the auth response of the step just taken
  guarded,         \* history: the protected operation of the step just taken
  bodyPhone,       \* req.body.phone of a request passed through normalizePhone
  normInput,       \* history: the phone that request was sent with
  passes           \* how often normalizePhone has run on that request

sendVars == <<now, ticks, lastSweep, rateLimitStore, sending,
              last, hist, resp, unswept, born>>

authVars ==
  <<users, tokens, verifying, registering, created, approved, aresp, guarded>>

normVars == <<bodyPhone, normInput, passes>>

vars == <<sendVars, authVars, normVars>>

----------------------------------------------------------------------------
(* Bounds of the model *)

MaxTicks == 2
MaxInFlight == 4
MaxUsers == 2
MaxPending == 2
MaxPre == 3
MaxRun == 12

\* amounts by which the clock advances between events, in ms
Deltas == {1000, 60 * 1000, 300 * 1000}

----------------------------------------------------------------------------
(* Characters and phone strings *)

DigitChars == {"0", "1", "2", "3", "4", "5", "6", "7", "8", "9"}

IsDigit(c) == c \in DigitChars

\* the strings the model computes with, and the characters of each
Texts ==
  {"", "9876543210", "919876543210", "+91 98765-43210", "+919876543210",
   "+916123456789", "916123456789", "12345", "123456", "123", "12345x",
   "Al", "Bo", "A", "0", "false"}

Chars(s) ==
  CASE s = "" -> << >>
    [] s = "9876543210" -> <<"9", "8", "7", "6", "5", "4", "3", "2", "1", "0">>
    [] s = "919876543210" -> <<"9", "1", "9", "8", "7", "6", "5", "4", "3", "2", "1", "0">>
    [] s = "+91 98765-43210" -> <<"+", "9", "1", " ", "9", "8", "7", "6", "5", "-", "4", "3", "2", "1", "0">>
    [] s = "+919876543210" -> <<"+", "9", "1", "9", "8", "7", "6", "5", "4", "3", "2", "1", "0">>
    [] s = "+916123456789" -> <<"+", "9", "1", "6", "1", "2", "3", "4", "5", "6", "7", "8", "9">>
    [] s = "916123456789" -> <<"9", "1", "6", "1", "2", "3", "4", "5", "6", "7", "8", "9">>
    [] s = "12345" -> <<"1", "2", "3", "4", "5">>
    [] s = "123456" -> <<"1", "2", "3", "4", "5", "6">>
    [] s = "123" -> <<"1", "2", "3">>
    [] s = "12345x" -> <<"1", "2", "3", "4", "5", "x">>
    [] s = "Al" -> <<"A", "l">>
    [] s = "Bo" -> <<"B", "o">>
    [] s = "A" -> <<"A">>
    [] s = "0" -> <<"0">>
    [] s = "false" -> <<"f", "a", "l", "s", "e">>

\* the string made of the characters cs
Text(cs) == CHOOSE s \in Texts : Chars(s) = cs

\* the request bodies' phone values the model draws from
RawLocal == "9876543210"
RawWith91 == "919876543210"
RawSpaced == "+91 98765-43210"
RawE164 == "+919876543210"
RawOther == "+916123456789"
RawShort == "12345"

SameKeyRaws == {RawLocal, RawWith91, RawSpaced}
RawPhones == SameKeyRaws \cup {RawOther, RawShort}
LivePhones == {RawE164, RawOther, RawShort}

StartsWith(s, p) == Len(s) >= Len(p) /\ SubSeq(s, 1, Len(p)) = p

\* (variant: replace without the g flag removes the first match only)
CleanedOnce(cs) ==
  LET bad == {i \in 1..Len(cs) : ~(IsDigit(cs[i]) \/ cs[i] = "+")}
  IN IF bad = {} THEN cs
     ELSE LET i == CHOOSE x \in bad : \A y \in bad : x <= y
          IN SubSeq(cs, 1, i - 1) \o SubSeq(cs, i + 1, Len(cs))

\* phone.replace(/[^\d+]/g, '')
Cleaned(cs) == SelectSeq(cs, LAMBDA c : IsDigit(c) \/ c = "+")

\* validators.js normalizePhone on the characters of req.body.phone: an empty
\* phone is left alone, another one is cleaned and given its +91 prefix
NormalizeChars(cs) ==
  IF cs = << >> THEN cs
  ELSE LET p == Cleaned(cs)
       IN IF StartsWith(p, <<"+", "9", "1">>) THEN p
          ELSE IF StartsWith(p, <<"9", "1">>) /\ Len(p) = 12 THEN <<"+">> \o p
          ELSE IF Len(p) = 10 THEN <<"+", "9", "1">> \o p
          ELSE p

\* normalizePhone on the strings of the requests
normalizePhone == [phone \in Texts |-> Text(NormalizeChars(Chars(phone)))]

\* [6-9]\d{9} anchored at both ends
MatchesMobile(s) ==
  /\ Len(s) = 10
  /\ s[1] \in {"6", "7", "8", "9"}
  /\ \A i \in 2..10 : IsDigit(s[i])

\* (variant: the phone is not validated before the limiter runs)
sendOtpValidationNone == [phone \in Texts |-> "ok"]

\* sendOtpValidation: notEmpty, then /^(\+91)?[6-9]\d{9}$/
sendOtpValidation ==
  [phone \in Texts |->
     IF phone = "" THEN "Phone number is required"
     ELSE IF \/ MatchesMobile(Chars(phone))
             \/ (StartsWith(Chars(phone), <<"+", "9", "1">>)
                 /\ MatchesMobile(SubSeq(Chars(phone), 4, Len(Chars(phone)))))
          THEN "ok"
          ELSE "Invalid Indian phone number. Must start with 6-9 and be 10 digits."]

\* rateLimiter.js: phone.replace(/\D/g, '')
KeyOf == [phone \in Texts |-> Text(SelectSeq(Chars(phone), IsDigit))]

----------------------------------------------------------------------------
(* The rate limiter *)

maxAttempts == 3
windowMs == 60 * 1000
blockDurationMs == 5 * 60 * 1000
cleanupIntervalMs == 5 * 60 * 1000

Put(store, key, entry) ==
  [k \in DOMAIN store \cup {key} |-> IF k = key THEN entry ELSE store[k]]

\* if (!entry || now > entry.resetTime)
WindowExpired(store, key, t) ==
  key \notin DOMAIN store \/ t > store[key].resetTime

\* (variant: a new entry starts at count 0)
NewEntryZero(t) == [count |-> 0, resetTime |-> t + windowMs, blocked |-> FALSE]

\* entry = { count: 1, resetTime: now + windowMs, blocked: false }
NewEntry(t) == [count |-> 1, resetTime |-> t + windowMs, blocked |-> FALSE]

\* (variant: the write of the incremented count is lost)
IncrementedLost(entry) == entry

\* entry.count++
Incremented(entry) == [entry EXCEPT !.count = @ + 1]

\* (variants: the limit is taken one too high, one too low)
LimitExceededLate(entry) == entry.count > maxAttempts + 1
LimitExceededEarly(entry) == entry.count >= maxAttempts

\* if (entry.count > RATE_LIMIT_CONFIG.maxAttempts)
LimitExceeded(entry) == entry.count > maxAttempts

\* (variant: the block lasts only as long as a window)
BlockedEntryShort(entry, t) ==
  [entry EXCEPT !.blocked = TRUE, !.resetTime = t + windowMs]

\* entry.blocked = true; entry.resetTime = now + blockDurationMs
BlockedEntry(entry, t) ==
  [entry EXCEPT !.blocked = TRUE, !.resetTime = t + blockDurationMs]

\* (variant: a denial during the block starts the block again)
DeniedWhileBlockedExtends(store, key, t) ==
  Put(store, key, BlockedEntry(store[key], t))

\* if (entry.blocked) return res.status(429): the Map is not written
DeniedWhileBlocked(store, key, t) == store

\* Math.ceil((entry.resetTime - now) / 1000)
RemainingTime(entry, t) == ((entry.resetTime - t) + 999) \div 1000

\* one run of the middleware for a non-empty phone: the new Map and the outcome
\*   "fresh"   a new entry was created, next()
\*   "counted" the count was incremented within the limit, next()
\*   "block"   the increment exceeded the limit: blocked, 429
\*   "blocked" the entry was already blocked: 429, nothing written
otpRateLimiter(store, key, t) ==
  IF WindowExpired(store, key, t)
    THEN [store |-> Put(store, key, NewEntry(t)), res |-> "fresh"]
  ELSE IF store[key].blocked
    THEN [store |-> DeniedWhileBlocked(store, key, t), res |-> "blocked"]
  ELSE LET e == Incremented(store[key])
       IN IF LimitExceeded(e)
            THEN [store |-> Put(store, key, BlockedEntry(e, t)), res |-> "block"]
            ELSE [store |-> Put(store, key, e), res |-> "counted"]

\* the message of the limiter's 429
LimitedMessage(res) ==
  IF res = "block" THEN "Too many OTP requests. Please try again in 5 minutes."
  ELSE "Too many requests. Please try again in N seconds."

Allowed(res) == res \in {"fresh", "counted"}
Denied(res) == res \in {"block", "blocked"}

\* (variant: the sweep also deletes an entry that expires at this instant)
cleanupExpiredEntriesEager(store, t) ==
  [k \in {x \in DOMAIN store : ~(t >= store[x].resetTime)} |-> store[k]]

\* cleanupExpiredEntries: delete every entry with now > resetTime
cleanupExpiredEntries(store, t) ==
  [k \in {x \in DOMAIN store : ~(t > store[x].resetTime)} |-> store[k]]

----------------------------------------------------------------------------
(* twilioService.js sendOTP, up to its first real suspension *)

\* the settings of process.env that make sendOTP behave differently
TestEnv == [sid |-> TRUE, mode |-> "test", creds |-> TRUE]
Envs ==
  { [sid |-> FALSE, mode |-> "live", creds |-> TRUE],
    TestEnv,
    [sid |-> TRUE,  mode |-> "live", creds |-> FALSE],
    [sid |-> TRUE,  mode |-> "live", creds |-> TRUE] }

\* getClient: throws unless both credentials are set (a client is only ever
\* created, and cached, with the credentials set)
getClientThrows(e) == ~e.creds

\* what sendOTP does before it awaits the provider:
\*   "notConfigured" it throws '... not configured'
\*   "pending"       test mode: it returns status 'pending' without a call
\*   "call"          verifications.create is in flight
sendOTPStart(e) ==
  IF ~e.sid THEN "notConfigured"
  ELSE IF e.mode = "test" THEN "pending"
  ELSE IF getClientThrows(e) THEN "notConfigured"
  ELSE "call"

\* what the provider call can end in: a verification with status 'pending',
\* one with another status, an error carrying code/status, an error without
ProviderReplies == {"pending", "other", "errCode", "errPlain"}

\* the status of middleware/errorHandler's response to next(error)
ErrorHandlerStatus == 500

\* the send-otp handler's mapping of sendOTP's outcome to a response
SendStatus(result) ==
  CASE result = "pending"       -> 200
    [] result = "other"         -> 500
    [] result = "errCode"       -> 400
    [] result = "notConfigured" -> 500
    [] OTHER                    -> ErrorHandlerStatus

\* (variant: an unexpected status is reported as a success)
SendMessageAlways(result) == "OTP sent successfully"

\* the message of the send-otp handler's response; "parseTwilioError" stands
\* for the message parseTwilioError maps the provider's error to
SendMessage(result) ==
  CASE result = "pending"       -> "OTP sent successfully"
    [] result = "other"         -> "Failed to send OTP. Please try again."
    [] result = "errCode"       -> "parseTwilioError"
    [] result = "notConfigured" -> "SMS service not configured"
    [] OTHER                    -> "errorHandler"

----------------------------------------------------------------------------
(* Values of a JSON request body *)

\* a JSON value is its type and its String(value); a key that is not in the
\* body is Absent
Absent == [t |-> "absent", v |-> ""]
Null == [t |-> "null", v |-> ""]
Str(s) == [t |-> "string", v |-> s]
Zero == [t |-> "number", v |-> "0"]
False == [t |-> "boolean", v |-> "false"]

\* JavaScript truthiness, as tested by if (updateData.phone), if (updateData._id)
Truthy(x) ==
  CASE x.t = "string"  -> x.v # ""
    [] x.t = "number"  -> x.v # "0"
    [] x.t = "boolean" -> x.v = "true"
    [] OTHER           -> FALSE

NameAl == "Al"
NameBo == "Bo"
NameA == "A"

Otp6 == "123456"
Otp3 == "123"
OtpX == "12345x"

----------------------------------------------------------------------------
(* validators.js: verify-otp and register-user *)

\* /^\+91[6-9]\d{9}$/
MatchesE164 ==
  [s \in Texts |->
     /\ StartsWith(Chars(s), <<"+", "9", "1">>)
     /\ MatchesMobile(SubSeq(Chars(s), 4, Len(Chars(s))))]

\* /^\d{6}$/
SixDigits ==
  [s \in Texts |-> Len(Chars(s)) = 6 /\ \A i \in 1..6 : IsDigit(Chars(s)[i])]

\* verifyOtpValidation followed by handleValidationErrors: the first message
verifyOtpValidation ==
  [phone \in Texts, otp \in Texts |->
     IF phone = "" THEN "Phone number is required"
     ELSE IF ~MatchesE164[phone]
       THEN "Invalid phone number format. Must be +91XXXXXXXXXX"
     ELSE IF otp = "" THEN "OTP is required"
     ELSE IF Len(Chars(otp)) # 6 THEN "OTP must be 6 digits"
     ELSE IF ~SixDigits[otp] THEN "OTP must contain only digits"
     ELSE "ok"]

\* registerUserValidation followed by handleValidationErrors
registerUserValidation ==
  [phone \in Texts, name \in Texts |->
     IF phone = "" THEN "Phone number is required"
     ELSE IF ~MatchesE164[phone]
       THEN "Invalid phone number format. Must be +91XXXXXXXXXX"
     ELSE IF name = "" THEN "Name is required"
     ELSE IF Len(Chars(name)) < 2 THEN "Name must be at least 2 characters"
     ELSE "ok"]

----------------------------------------------------------------------------
(* twilioService.js verifyOTP *)

\* what verifyOTP does before it awaits the provider:
\*   "notConfigured" it throws '... not configured'
\*   "approved"      test mode and a 6-digit code
\*   "pending"       test mode and another code
\*   "call"          verificationChecks.create is in flight
verifyOTPStart(e, otp) ==
  IF ~e.sid THEN "notConfigured"
  ELSE IF e.mode = "test"
    THEN IF Len(Chars(otp)) = 6 /\ SixDigits[otp]
           THEN "approved" ELSE "pending"
  ELSE IF getClientThrows(e) THEN "notConfigured"
  ELSE "call"

\* what the provider's check can end in: status 'approved', another status,
\* an error carrying code/status, an error without
CheckReplies == {"approved", "pending", "errCode", "errPlain"}

\* the object verifyOTP returns for a check that ended with this status
CheckResult(status) == [status |-> status, valid |-> status = "approved"]

\* if (!result.valid || result.status !== 'approved')
OtpRejected(result) == ~result.valid \/ result.status # "approved"

----------------------------------------------------------------------------
(* jwt.js and middleware/auth.js *)

\* the payload jwt.sign signs; NoToken stands for a response without token
generateToken(userId, phone) == [userId |-> userId, phone |-> phone]
NoToken == [userId |-> 0, phone |-> ""]

\* an Authorization header: missing, not 'Bearer <token>', a token that does
\* not verify, one that has expired, or a token this service issued
BadHeaders == {"missing", "malformed", "invalid", "expired"}
Header(kind, token) == [kind |-> kind, token |-> token]

\* (variant: an expired token is let through)
authenticateLax(h) ==
  CASE h.kind = "missing"   -> "Authorization token is required"
    [] h.kind = "malformed"
         -> "Invalid authorization header format. Use: Bearer <token>"
    [] h.kind = "invalid"   -> "Invalid token"
    [] OTHER                -> "ok"

\* authenticate: the message of its 401, or "ok" when it calls next().  A
\* header value reaches it without surrounding spaces, so 'Bearer' followed
\* by an empty token arrives as the one word 'Bearer' (malformed); verifyToken
\* throws a third kind of error only for a signed token with a not-before
\* time, which generateToken never signs
authenticate(h) ==
  CASE h.kind = "missing"   -> "Authorization token is required"
    [] h.kind = "malformed"
         -> "Invalid authorization header format. Use: Bearer <token>"
    [] h.kind = "expired"   -> "Token has expired. Please login again."
    [] h.kind = "invalid"   -> "Invalid token"
    [] OTHER                -> "ok"

----------------------------------------------------------------------------
(* The User collection *)

\* (variant: the lookup never finds a profile)
FindOneNothing(coll, phone) == 0

\* User.findOne({ phone }): the _id of the profile with that phone, 0 for null
FindOne(coll, phone) ==
  IF \E id \in DOMAIN coll : coll[id].phone = phone
    THEN CHOOSE id \in DOMAIN coll : coll[id].phone = phone
  ELSE 0

\* the unique index on phone rejects a write that gives the profile 'self' a
\* phone another profile holds (error code 11000)
DuplicateKey(coll, self, phone) ==
  \E id \in DOMAIN coll : id # self /\ coll[id].phone = phone

\* the _id of the next document
NewId(coll) == Cardinality(DOMAIN coll) + 1

Insert(coll, id, doc) ==
  [k \in DOMAIN coll \cup {id} |-> IF k = id THEN doc ELSE coll[k]]

----------------------------------------------------------------------------
(* PUT /update-profile *)

\* a request body: phone, _id and name as JSON values, and sys: whether it
\* carries any of __v, createdAt, updatedAt, joinedDate
Body(phone, id, name, sys) ==
  [phone |-> phone, id |-> id, name |-> name, sys |-> sys]
NoBody == Body(Absent, Absent, Absent, FALSE)

PhoneValues == {Absent, Str(RawOther), Str(""), Zero, False, Null}
IdValues == {Absent, Str("abc"), Zero}
NameValues == {Absent, Str(NameBo)}
Bodies ==
  {Body(p, Absent, Absent, FALSE) : p \in PhoneValues}
    \cup {Body(p, Absent, Str(NameBo), FALSE) : p \in {Absent, Zero}}
    \cup {Body(Absent, i, Absent, FALSE) : i \in IdValues}
    \cup {Body(Absent, Absent, n, TRUE) : n \in NameValues}
    \cup {Body(Zero, Zero, Absent, TRUE)}

\* if (updateData.phone) delete ...; if (updateData._id) delete ...;
\* delete __v, createdAt, updatedAt, joinedDate
StripForbidden(body) ==
  Body(IF Truthy(body.phone) THEN Absent ELSE body.phone,
       IF Truthy(body.id) THEN Absent ELSE body.id,
       body.name, FALSE)

\* Object.keys(updateData).length === 0
NoKeys(data) == data = NoBody

\* the String schema type's cast of a value that is not null: value.toString()
CastString(x) == x.v

\* the required validator of a String path: a non-empty string
RequiredFails(x) == x.t = "null" \/ CastString(x) = ""

\* how the cast of a falsy _id in $set, or the server's refusal to modify
\* _id, surfaces: as a CastError or as another error
IdErrors == {"CastError", "error"}

\* User.findByIdAndUpdate(userId, { $set: data }, { new, runValidators }):
\* the collection afterwards and how the call ends
findByIdAndUpdate(coll, userId, data, idErr) ==
  IF data.id # Absent THEN [coll |-> coll, end |-> idErr]
  ELSE IF data.phone # Absent /\ RequiredFails(data.phone)
    THEN [coll |-> coll, end |-> "ValidationError"]
  ELSE IF userId \notin DOMAIN coll THEN [coll |-> coll, end |-> "null"]
  ELSE IF data.phone # Absent /\ DuplicateKey(coll, userId, CastString(data.phone))
    THEN [coll |-> coll, end |-> "error"]
  ELSE LET old == coll[userId]
           new == [phone |-> IF data.phone # Absent THEN CastString(data.phone)
                             ELSE old.phone,
                   name |-> IF data.name # Absent THEN CastString(data.name)
                            ELSE old.name]
       IN [coll |-> [coll EXCEPT ![userId] = new], end |-> "updated"]

\* the handler's mapping of how the call ended to a response
UpdateStatus(end) ==
  CASE end = "updated"         -> 200
    [] end = "null"            -> 404
    [] end = "ValidationError" -> 400
    [] end = "CastError"       -> 400
    [] OTHER                   -> ErrorHandlerStatus

UpdateMessage(end) ==
  CASE end = "updated"         -> "success"
    [] end = "null"            -> "User not found"
    [] end = "ValidationError" -> "Validation error"
    [] end = "CastError"       -> "Invalid user ID"
    [] OTHER                   -> "errorHandler"

----------------------------------------------------------------------------
(* State of the auth flows *)

\* the phones of the auth requests
AuthPhones == {RawE164, RawOther}
RegisterRaws == {RawLocal, RawE164, RawOther, RawShort}
VerifyRaws == {RawLocal, RawE164, RawOther}
Names == {NameAl, NameA, ""}
Otps == {Otp6, Otp3, OtpX}

\* a register-user request between its findOne and its save
Registration(phone, name) == [phone |-> phone, name |-> name]
Registrations == {Registration(p, NameAl) : p \in AuthPhones}

Pending(bag) ==
  LET RECURSIVE Sum(_)
      Sum(S) == IF S = {} THEN 0
                ELSE LET x == CHOOSE y \in S : TRUE IN bag[x] + Sum(S \ {x})
  IN Sum(DOMAIN bag)

\* the response of the step just taken, kept until it is read (kind "none":
\* no response is waiting to be read); check is the outcome of the OTP check
\* the response is about
Answer(kind, phone, status, msg, token, isNewUser, check, body) ==
  [kind |-> kind, phone |-> phone, status |-> status, msg |-> msg,
   token |-> token, isNewUser |-> isNewUser, check |-> check, body |-> body]
NoAnswer == Answer("none", "", 0, "", NoToken, FALSE, "none", NoBody)

\* what a protected operation did: which one it was (op), the kind of
\* Authorization header it was sent with, and what it did with the User
\* collection ("none", "read" or "write"); op "none": the step just taken was
\* not a protected operation
Guarded(op, header, access) == [op |-> op, header |-> header, access |-> access]
NoGuarded == Guarded("none", "", "none")

----------------------------------------------------------------------------
(* State of the send-otp pipeline *)

\* last and resp hold the event of the step just taken and are cleared by the
\* next step: a state with last # NoDecision is the state right after a check
\* (resUnswept: the limiter's outcome on the Map that was never swept)
NoDecision ==
  [key |-> "", raw |-> "", res |-> "none", ord |-> 0, resUnswept |-> "none"]

\* a response: its status, what led to it (result), its message, and for a
\* 429 of a blocked identifier the seconds named in the message (retry)
NoResponse == [status |-> 0, result |-> "none", msg |-> "", retry |-> 0]

Quiet == last' = NoDecision /\ resp' = NoResponse

\* per key: the window opened by the latest allowed attempt that came more than
\* windowMs after the previous window's start (winStart, -1: none yet), the
\* checks and the allowed attempts made within [winStart, winStart + windowMs],
\* the time and format of the latest block-triggering denial, the time of the
\* latest denial, and the times of the allowed attempts within the windowMs up
\* to the latest allowed attempt (the last four of them)
NoHist ==
  [winStart |-> -1, checks |-> 0, allowed |-> 0, blockAt |-> -1,
   blockRaw |-> "", denyAt |-> -1, allowedAt |-> << >>]

ChecksCap == 5

\* the latest time after a block at which a retry is compared with it
RetryAfterMs == 301 * 1000

Min(a, b) == IF a < b THEN a ELSE b

LastN(s, n) == IF Len(s) <= n THEN s ELSE SubSeq(s, Len(s) - n + 1, Len(s))

\* the history of a key after the limiter answered res to raw at time t
Record(h, raw, t, res) ==
  LET opens == Allowed(res) /\ (h.winStart < 0 \/ t > h.winStart + windowMs)
      inside == ~opens /\ h.winStart >= 0 /\ t <= h.winStart + windowMs
      recent == SelectSeq(h.allowedAt, LAMBDA x : x + windowMs >= t)
  IN [winStart  |-> IF opens THEN t ELSE h.winStart,
      checks    |-> IF opens THEN 1
                    ELSE IF inside THEN Min(h.checks + 1, ChecksCap)
                    ELSE h.checks,
      allowed   |-> IF opens THEN 1
                    ELSE IF inside /\ Allowed(res) THEN Min(h.allowed + 1, ChecksCap)
                    ELSE h.allowed,
      blockAt   |-> IF res = "block" THEN t ELSE h.blockAt,
      blockRaw  |-> IF res = "block" THEN raw ELSE h.blockRaw,
      denyAt    |-> IF Denied(res) THEN t ELSE h.denyAt,
      allowedAt |-> IF Allowed(res) THEN LastN(Append(recent, t), 4)
                    ELSE h.allowedAt]

\* what of a key's history can still matter at time t: a window, a denial, a
\* block and an allowed attempt are dropped once t is past the span in which
\* a later attempt is compared with them
Forget(h, t) ==
  LET open == h.winStart >= 0 /\ t <= h.winStart + windowMs
  IN [winStart  |-> IF open THEN h.winStart ELSE -1,
      checks    |-> IF open THEN h.checks ELSE 0,
      allowed   |-> IF open THEN h.allowed ELSE 0,
      blockAt   |-> IF t <= h.blockAt + RetryAfterMs THEN h.blockAt ELSE -1,
      blockRaw  |-> IF t <= h.blockAt + RetryAfterMs THEN h.blockRaw ELSE "",
      denyAt    |-> IF t <= h.denyAt + blockDurationMs THEN h.denyAt ELSE -1,
      allowedAt |-> SelectSeq(h.allowedAt, LAMBDA x : x + windowMs >= t)]

\* the position of the attempt just recorded within its window (0: outside)
Ordinal(h, t) ==
  IF h.winStart >= 0 /\ t <= h.winStart + windowMs THEN h.checks ELSE 0

\* when the entry of a key was created (createdAt) and when it was blocked
\* (blockedAt, -1: not since it was created), after the limiter answered res
\* at time t
Stamp(b, key, t, res) ==
  IF res = "fresh"
    THEN Put(b, key, [createdAt |-> t, blockedAt |-> -1])
  ELSE IF res = "block"
    THEN Put(b, key, [b[key] EXCEPT !.blockedAt = t])
  ELSE b

\* the key whose history is kept: that of the phone sent in several formats
WatchedKey == KeyOf[normalizePhone[RawLocal]]

InitService ==
  /\ now = 0
  /\ ticks = 0
  /\ lastSweep = 0
  /\ rateLimitStore = << >>
  /\ sending = 0
  /\ last = NoDecision
  /\ hist = [k \in {WatchedKey} |-> NoHist]
  /\ resp = NoResponse
  /\ unswept = << >>
  /\ born = << >>
  /\ users = << >>
  /\ tokens = {}
  /\ verifying = {}
  /\ registering = [r \in Registrations |-> 0]
  /\ created = << >>
  /\ approved = {}
  /\ aresp = NoAnswer
  /\ guarded = NoGuarded

\* the service with no request under normalization
Init ==
  /\ InitService
  /\ bodyPhone = << >>
  /\ normInput = << >>
  /\ passes = 0

----------------------------------------------------------------------------
(* Actions of the send-otp pipeline *)

Respond(status, result, msg, retry) ==
  resp' = [status |-> status, result |-> result, msg |-> msg, retry |-> retry]

\* POST /send-otp up to its first suspension at the provider: normalizePhone,
\* sendOtpValidation, handleValidationErrors, otpRateLimiter and the handler up
\* to its await of sendOTP (the middlewares in between run to completion without
\* reading shared state); e is process.env as sendOTP reads it in this call
SendOtp(raw, e) ==
  LET phone == normalizePhone[raw]
      key == KeyOf[phone]
      d == otpRateLimiter(rateLimitStore, key, now)
      du == otpRateLimiter(unswept, key, now)
      h == IF key \in DOMAIN hist THEN Record(hist[key], raw, now, d.res) ELSE NoHist
      ord == Ordinal(h, now)
      start == sendOTPStart(e)
  IN IF sendOtpValidation[phone] # "ok"
       THEN /\ Respond(400, "invalid", sendOtpValidation[phone], 0)
            /\ last' = NoDecision
            /\ UNCHANGED <<rateLimitStore, hist, sending, unswept, born>>
     ELSE /\ rateLimitStore' = d.store
          /\ unswept' = du.store
          /\ born' = Stamp(born, key, now, d.res)
          /\ hist' = IF key \in DOMAIN hist THEN [hist EXCEPT ![key] = h] ELSE hist
          /\ last' = [key |-> key, raw |-> raw, res |-> d.res, ord |-> ord,
                      resUnswept |-> du.res]
          /\ IF Denied(d.res)
               THEN /\ Respond(429, "limited", LimitedMessage(d.res),
                               IF d.res = "blocked"
                                 THEN RemainingTime(rateLimitStore[key], now)
                                 ELSE 0)
                    /\ UNCHANGED sending
             ELSE IF start = "call"
               THEN /\ sending < MaxInFlight
                    /\ sending' = sending + 1
                    /\ resp' = NoResponse
             ELSE /\ Respond(SendStatus(start), start, SendMessage(start), 0)
                  /\ UNCHANGED sending

SendOtpRequest(raw, e) ==
  /\ SendOtp(raw, e)
  /\ UNCHANGED <<now, ticks, lastSweep, authVars, normVars>>

\* the provider call of a request settles and the handler answers
ProviderReply(reply) ==
  /\ sending > 0
  /\ sending' = sending - 1
  /\ Respond(SendStatus(reply), reply, SendMessage(reply), 0)
  /\ last' = NoDecision
  /\ UNCHANGED <<now, ticks, lastSweep, rateLimitStore, hist, unswept,
                 born, authVars, normVars>>

\* time passes
Tick(d) ==
  /\ ticks < MaxTicks
  /\ now' = now + d
  /\ ticks' = ticks + 1
  /\ hist' = [k \in DOMAIN hist |-> Forget(hist[k], now')]
  /\ Quiet
  /\ UNCHANGED <<lastSweep, rateLimitStore, sending, unswept, born,
                 authVars, normVars>>

\* setInterval(cleanupExpiredEntries, 5 * 60 * 1000) fires
Sweep ==
  /\ now >= lastSweep + cleanupIntervalMs
  /\ rateLimitStore' = cleanupExpiredEntries(rateLimitStore, now)
  /\ lastSweep' = now
  /\ Quiet
  /\ UNCHANGED <<now, ticks, sending, hist, unswept, born, authVars,
                 normVars>>

\* the service run with SMS_MODE=test, as time passes
Next ==
  \/ \E raw \in RawPhones : SendOtpRequest(raw, TestEnv)
  \/ \E d \in Deltas : Tick(d)
  \/ Sweep

Spec == Init /\ [][Next]_vars

\* the service against the provider, under every configuration, with up to
\* MaxInFlight provider calls pending at once, within a few seconds
NextLive ==
  \/ \E raw \in LivePhones, e \in Envs : SendOtpRequest(raw, e)
  \/ \E reply \in ProviderReplies : ProviderReply(reply)
  \/ Tick(1000)

SpecLive == Init /\ [][NextLive]_vars

----------------------------------------------------------------------------
(* Actions of the auth flows *)

\* POST /verify-otp up to its findOne: verifyOtpValidation,
\* handleValidationErrors, verifyOTP (reply: how the provider's check ends, if
\* one is made) and the handler's test of the result
VerifyOtpRequest(phone, otp, e, reply) ==
  LET valid == verifyOtpValidation[phone, otp]
      start == verifyOTPStart(e, otp)
      end == IF start = "call" THEN reply ELSE start
      Reply(status, msg) ==
        aresp' = Answer("verify", phone, status, msg, NoToken, FALSE, end, NoBody)
  IN /\ aresp = NoAnswer
     /\ IF valid # "ok"
          THEN /\ aresp' = Answer("verify", "", 400, valid, NoToken, FALSE,
                                  "none", NoBody)
               /\ UNCHANGED <<verifying, approved>>
        ELSE IF end = "notConfigured"
          THEN Reply(500, "SMS service not configured")
               /\ UNCHANGED <<verifying, approved>>
        ELSE IF end = "errCode"
          THEN Reply(400, "parseTwilioError") /\ UNCHANGED <<verifying, approved>>
        ELSE IF end = "errPlain"
          THEN Reply(ErrorHandlerStatus, "errorHandler")
               /\ UNCHANGED <<verifying, approved>>
        ELSE IF OtpRejected(CheckResult(end))
          THEN Reply(400, "Invalid OTP. Please try again.")
               /\ UNCHANGED <<verifying, approved>>
        ELSE /\ verifying' = verifying \cup {phone}
             /\ approved' = approved \cup {phone}
             /\ aresp' = NoAnswer
     /\ guarded' = NoGuarded
     /\ UNCHANGED <<users, tokens, created, registering, sendVars,
                    normVars>>

\* POST /verify-otp from its findOne on: the lookup and the response
VerifyOtpLookup(phone) ==
  LET user == FindOne(users, phone)
      token == generateToken(user, phone)
  IN /\ aresp = NoAnswer
     /\ phone \in verifying
     /\ verifying' = verifying \ {phone}
     /\ IF user # 0
          THEN /\ tokens' = tokens \cup {token}
               /\ aresp' = Answer("verify", phone, 200, "success", token, FALSE,
                                  "approved", NoBody)
        ELSE /\ tokens' = tokens
             /\ aresp' = Answer("verify", phone, 200, "success", NoToken, TRUE,
                                "approved", NoBody)
     /\ guarded' = NoGuarded
     /\ UNCHANGED <<users, created, approved, registering, sendVars,
                    normVars>>

\* POST /register-user up to its save: normalizePhone, registerUserValidation,
\* handleValidationErrors and the findOne
RegisterUserRequest(raw, name) ==
  LET phone == normalizePhone[raw]
      valid == registerUserValidation[phone, name]
      r == Registration(phone, name)
      Reply(about, msg) ==
        aresp' = Answer("register", about, 400, msg, NoToken, FALSE, "none", NoBody)
  IN /\ aresp = NoAnswer
     /\ IF valid # "ok"
          THEN Reply("", valid) /\ UNCHANGED registering
        ELSE IF FindOne(users, phone) # 0
          THEN Reply(phone, "User with this phone number already exists")
               /\ UNCHANGED registering
        ELSE /\ Pending(registering) < MaxPending
             /\ registering' = [registering EXCEPT ![r] = @ + 1]
             /\ aresp' = NoAnswer
     /\ guarded' = NoGuarded
     /\ UNCHANGED <<users, tokens, created, approved, verifying, sendVars,
                    normVars>>

\* POST /register-user from its save on: the insert, which the unique index
\* on phone refuses with code 11000 if a profile holds the phone, the token
\* and the response
RegisterUserSave(r) ==
  LET id == NewId(users)
      token == generateToken(id, r.phone)
  IN /\ aresp = NoAnswer
     /\ registering[r] > 0
     /\ registering' = [registering EXCEPT ![r] = @ - 1]
     /\ IF DuplicateKey(users, id, r.phone)
          THEN /\ aresp' = Answer("register", r.phone, 400,
                                  "User with this phone number already exists",
                                  NoToken, FALSE, "none", NoBody)
               /\ UNCHANGED <<users, tokens, created>>
        ELSE /\ Cardinality(DOMAIN users) < MaxUsers
             /\ users' = Insert(users, id, [phone |-> r.phone, name |-> r.name])
             /\ created' = Insert(created, id, r.phone)
             /\ tokens' = tokens \cup {token}
             /\ aresp' = Answer("register", r.phone, 201, "success", token,
                                FALSE, "none", NoBody)
     /\ guarded' = NoGuarded
     /\ UNCHANGED <<approved, verifying, sendVars,
                    normVars>>

\* PUT /update-profile: authenticate (a token verifies if this service issued
\* it), the removal of the fields that must not be updated, findByIdAndUpdate
\* and the response
UpdateProfile(h, body, idErr) ==
  LET auth == authenticate(h)
      data == StripForbidden(body)
      u == findByIdAndUpdate(users, h.token.userId, data, idErr)
      Reply(status, msg) ==
        aresp' = Answer("update", "", status, msg, NoToken, FALSE, "none", body)
  IN /\ aresp = NoAnswer
     /\ h.kind = "valid" => h.token \in tokens
     /\ IF auth # "ok"
          THEN /\ Reply(401, auth)
               /\ guarded' = Guarded("update", h.kind, "none")
               /\ UNCHANGED users
        ELSE IF NoKeys(data)
          THEN /\ Reply(400, "No fields to update")
               /\ guarded' = Guarded("update", h.kind, "none")
               /\ UNCHANGED users
        ELSE /\ users' = u.coll
             /\ guarded' = Guarded("update", h.kind, "write")
             /\ Reply(UpdateStatus(u.end), UpdateMessage(u.end))
     /\ UNCHANGED <<tokens, created, approved, verifying, registering, sendVars,
                    normVars>>

\* GET /me: authenticate, User.findById(userId) and the response
GetMe(h) ==
  LET auth == authenticate(h)
      userId == h.token.userId
      Reply(about, status, msg) ==
        aresp' = Answer("me", about, status, msg, NoToken, FALSE, "none", NoBody)
  IN /\ aresp = NoAnswer
     /\ h.kind = "valid" => h.token \in tokens
     /\ IF auth # "ok"
          THEN Reply("", 401, auth) /\ guarded' = Guarded("me", h.kind, "none")
        ELSE /\ guarded' = Guarded("me", h.kind, "read")
             /\ IF userId \notin DOMAIN users
                  THEN Reply("", 404, "User not found")
                ELSE Reply(users[userId].phone, 200, "success")
     /\ UNCHANGED <<users, tokens, created, approved, verifying, registering,
                    sendVars,
                    normVars>>

\* GET /api/users: authenticate, User.find() and the response
ListUsers(h) ==
  LET auth == authenticate(h)
      Reply(status, msg) ==
        aresp' = Answer("list", "", status, msg, NoToken, FALSE, "none", NoBody)
  IN /\ aresp = NoAnswer
     /\ h.kind = "valid" => h.token \in tokens
     /\ IF auth # "ok"
          THEN Reply(401, auth) /\ guarded' = Guarded("list", h.kind, "none")
        ELSE Reply(200, "success") /\ guarded' = Guarded("list", h.kind, "read")
     /\ UNCHANGED <<users, tokens, created, approved, verifying, registering,
                    sendVars,
                    normVars>>

\* the response of the step before is read, and forgotten
Observe ==
  /\ aresp # NoAnswer
  /\ aresp' = NoAnswer
  /\ guarded' = NoGuarded
  /\ UNCHANGED <<users, tokens, verifying, registering, created, approved, sendVars,
                    normVars>>

\* the Authorization headers a client can send: one of the bad ones, or a
\* token with a payload this service could have signed
Headers ==
  {Header(k, NoToken) : k \in BadHeaders}
    \cup {Header("valid", generateToken(id, p)) : id \in 1..MaxUsers, p \in AuthPhones}

\* the verify-otp requests: a request that fails validation under one setting
\* only, a reply of the provider only where verifyOTP makes the check
VerifyRequests ==
  {q \in VerifyRaws \X Otps \X Envs \X (CheckReplies \cup {"none"}) :
     IF verifyOtpValidation[q[1], q[2]] # "ok"
       THEN q[3] = TestEnv /\ q[4] = "none"
     ELSE (q[4] = "none") = (verifyOTPStart(q[3], q[2]) # "call")}

\* the update-profile requests: a header that authenticate rejects with one
\* body only, a way for the update of _id to fail only where the update has one
UpdateRequests ==
  {q \in Headers \X Bodies \X (IdErrors \cup {"none"}) :
     /\ q[1].kind # "valid" => q[2] = NoBody
     /\ (q[3] = "none") = (StripForbidden(q[2]).id = Absent)}

\* verification, registration and profile update, interleaved
NextAuth ==
  \/ \E q \in VerifyRequests : VerifyOtpRequest(q[1], q[2], q[3], q[4])
  \/ \E p \in AuthPhones : VerifyOtpLookup(p)
  \/ \E raw \in RegisterRaws, name \in Names : RegisterUserRequest(raw, name)
  \/ \E r \in Registrations : RegisterUserSave(r)
  \/ \E q \in UpdateRequests : UpdateProfile(q[1], q[2], q[3])
  \/ \E h \in Headers : GetMe(h)
  \/ \E h \in Headers : ListUsers(h)
  \/ Observe

SpecAuth == Init /\ [][NextAuth]_vars

----------------------------------------------------------------------------
(* normalizePhone as a function of the phone alone *)

\* the characters a phone is written with here: a digit that can head the
\* prefix (9, 1), the plus sign, and two separators
NormAlphabet == {"+", "9", "1", " ", "-"}

SeqsUpTo(A, n) == UNION {[1..k -> A] : k \in 0..n}

\* a run of k digits
Run(k) == [i \in 1..k |-> "7"]

\* the phones of the claim's examples
NormExamples == {Chars(RawLocal), Chars(RawWith91), Chars(RawE164)}

\* the phones normalizePhone is applied to: up to MaxPre characters, up to
\* MaxRun digits and at most one more character; and the examples
NormInputs ==
  {pre \o Run(k) \o post :
     pre \in SeqsUpTo(NormAlphabet, MaxPre), k \in 0..MaxRun,
     post \in SeqsUpTo(NormAlphabet, 1)}
    \cup NormExamples \cup {Chars(RawSpaced)}

InitNorm ==
  /\ InitService
  /\ bodyPhone \in NormInputs
  /\ normInput = bodyPhone
  /\ passes = 0

\* normalizePhone runs on the request: req.body.phone = phone
NormalizePass ==
  /\ passes < 2
  /\ bodyPhone' = NormalizeChars(bodyPhone)
  /\ passes' = passes + 1
  /\ UNCHANGED <<normInput, sendVars, authVars>>

NextNorm == NormalizePass

SpecNorm == InitNorm /\ [][NextNorm]_vars

----------------------------------------------------------------------------
(* Claims about the rate limiter *)

Watched == DOMAIN hist

\* the state right after the limiter decided on an attempt for watched key k
Decided(k) == last # NoDecision /\ last.key = k

\* C1 as stated: any interval of 60 s holds at most 3 allowed attempts of one
\* identifier, i.e. the allowed attempts within the 60 s up to the latest allowed
\* attempt number at most 3.  The limiter counts per window, not per interval:
\* two attempts at the end of one window and two at the start of the next are
\* all allowed.
C1_AnySixtySeconds ==
  \A k \in Watched : Len(hist[k].allowedAt) <= 3

\* C1 amended: the 60 s window that starts at the attempt that opened it (an
\* allowed attempt more than 60 s after the start of the window before) holds at
\* most 3 allowed attempts of the identifier.
C1_PerWindow ==
  \A k \in Watched : hist[k].allowed <= 3

\* three attempts were allowed in one window and a fourth, in it, was denied
C1_Witness ==
  \E k \in Watched : hist[k].allowed = 3 /\ hist[k].checks = 4 /\ Decided(k)
                     /\ last.res = "block"

\* C2 as stated: after any denial at time D, every attempt for the same digits at
\* a time in (D, D + 300 s] is denied.  A denial made while the identifier is
\* already blocked does not restart the 300 s, so an attempt less than 300 s
\* after such a denial can be allowed.
C2_AfterAnyDenial ==
  \A k \in Watched :
    (Decided(k) /\ hist[k].denyAt >= 0 /\ hist[k].denyAt < now
                /\ now <= hist[k].denyAt + 300 * 1000)
      => Denied(last.res)

\* C2 amended: after the denial that sets the block (the attempt that exceeds the
\* limit) at time D, every attempt at a time in (D, D + 300 s] whose phone
\* normalizes to the same digits, in whatever format, is denied with 429.
C2_AfterBlock ==
  \A k \in Watched :
    (Decided(k) /\ hist[k].blockAt >= 0 /\ hist[k].blockAt < now
                /\ now <= hist[k].blockAt + 300 * 1000)
      => (Denied(last.res) /\ resp.status = 429)

\* an attempt exactly 300 s after the block, written in another format than the
\* attempt that set the block, was denied
C2_Witness ==
  \E k \in Watched :
    /\ Decided(k) /\ last.res = "blocked" /\ resp.status = 429
    /\ hist[k].blockAt >= 0 /\ now = hist[k].blockAt + 300 * 1000
    /\ last.raw # hist[k].blockRaw
    /\ KeyOf[normalizePhone[last.raw]] = KeyOf[normalizePhone[hist[k].blockRaw]]

\* C3 as stated: of the requests of one minute the first two get 200 and the
\* third 429; a request 301 s after the denial gets 200.  The limit is 3 allowed
\* attempts: the third request gets 200 as well.
C3_ThirdDenied ==
  \A k \in Watched :
    Decided(k) =>
      /\ (last.ord \in {1, 2} => resp.status = 200)
      /\ (last.ord = 3 => resp.status = 429)
      /\ ((hist[k].blockAt >= 0 /\ now = hist[k].blockAt + 301 * 1000)
            => resp.status = 200)

\* C3 amended (provider answering 'pending'): the first three requests of one
\* minute get 200, the fourth gets 429 and sets the block, and a request made
\* 301 s after that denial gets 200 again.
C3_FourthDenied ==
  \A k \in Watched :
    Decided(k) =>
      /\ (last.ord \in {1, 2, 3} => (Allowed(last.res) /\ resp.status = 200))
      /\ (last.ord = 4 => (last.res = "block" /\ resp.status = 429))
      /\ ((hist[k].blockAt >= 0 /\ now = hist[k].blockAt + 301 * 1000)
            => (Allowed(last.res) /\ resp.status = 200))

\* the request made 301 s after the denied fourth one was answered 200
C3_Witness ==
  \E k \in Watched :
    /\ Decided(k) /\ resp.status = 200 /\ last.ord = 1
    /\ hist[k].blockAt >= 0 /\ now = hist[k].blockAt + 301 * 1000
    /\ rateLimitStore[k] = [count |-> 1, resetTime |-> now + 60 * 1000,
                            blocked |-> FALSE]

\* C4: with N checks of one identifier made within one window, interleaved with
\* the pending provider calls of the requests already allowed, the stored count
\* is min(N, 4) and min(N, 3) of the requests were allowed.
C4_NoLostUpdate ==
  \A k \in Watched :
    hist[k].winStart >= 0 =>
      /\ k \in DOMAIN rateLimitStore
      /\ rateLimitStore[k].count = Min(hist[k].checks, 4)
      /\ hist[k].allowed = Min(hist[k].checks, 3)

\* five requests were checked while three provider calls were pending
C4_Witness ==
  \E k \in Watched :
    /\ sending >= 3 /\ hist[k].checks = 5 /\ hist[k].allowed = 3
    /\ rateLimitStore[k].count = 4

----------------------------------------------------------------------------
(* Claims about the auth flows *)

\* the stored profiles that hold a phone
Profiles(phone) == {id \in DOMAIN users : users[id].phone = phone}

\* the profiles that register-user created for a phone, one per 201 answer
Registered(phone) == {id \in DOMAIN created : created[id] = phone}

\* a body that carries no field but phone, _id, __v, createdAt, updatedAt,
\* joinedDate
OnlyForbidden(body) == body.name = Absent

\* C5: of the register requests for one normalized phone, however their findOne
\* and save interleave, at most one is answered 201, at most one profile holds
\* the phone, and every register request is answered 201 or 400, never 500.
C5_OneRegistrationPerPhone ==
  /\ \A p \in AuthPhones :
       Cardinality(Registered(p)) <= 1 /\ Cardinality(Profiles(p)) <= 1
  /\ aresp.kind = "register" => aresp.status \in {201, 400}

\* C6: every token that has been issued, by verify-otp or by register-user,
\* is for a phone for which an OTP check was approved before.
C6_TokenNeedsApprovedCheck ==
  \A t \in tokens : t.phone \in approved

C8_TokenIdentifiesProfile ==
  \A t \in tokens :
    t.userId \in DOMAIN users /\ users[t.userId].phone = t.phone

\* C9: the stored profiles are the profiles that were created, each under the
\* _id and with the phone it was created with, whatever update-profile
\* requests were made.
C9_PhoneAndIdNeverChange ==
  /\ DOMAIN users = DOMAIN created
  /\ \A id \in DOMAIN users : users[id].phone = created[id]

\* C10: an authenticated update-profile request whose body carries only
\* forbidden fields, or none, is answered 400 'No fields to update' and leaves
\* the profiles unchanged.
C10_OnlyForbiddenRejected ==
  [][ (aresp'.kind = "update" /\ aresp'.status # 401 /\ OnlyForbidden(aresp'.body))
        => /\ aresp'.status = 400
           /\ aresp'.msg = "No fields to update"
           /\ users' = users
    ]_vars

\* the 401 message that belongs to a kind of Authorization header
C11_Message(kind) ==
  CASE kind = "missing"   -> "Authorization token is required"
    [] kind = "malformed" -> "Invalid authorization header format. Use: Bearer <token>"
    [] kind = "expired"   -> "Token has expired. Please login again."
    [] kind = "invalid"   -> "Invalid token"

\* C11: a protected operation (me, update-profile, list) sent with a header
\* whose token does not verify neither reads nor writes the profiles and is
\* answered 401 with the message of its case: missing header, malformed
\* header, expired token, invalid token.
C11_NoAccessWithoutToken ==
  [][ (guarded'.op # "none" /\ guarded'.header # "valid")
        => /\ guarded'.access = "none"
           /\ users' = users
           /\ aresp'.status = 401
           /\ aresp'.msg = C11_Message(guarded'.header)
    ]_vars

\* a list request with an expired token was answered 401 'Token has expired'
\* without reading the profiles, while profiles were stored
C11_Witness ==
  /\ guarded = Guarded("list", "expired", "none")
  /\ aresp.status = 401 /\ aresp.msg = "Token has expired. Please login again."
  /\ users # << >>

----------------------------------------------------------------------------
(* Claims about the sweep and the entries *)

\* C14: every check has the outcome it would have had if no sweep had ever
\* run, and an entry that has not expired (not now > resetTime) is in the Map
\* exactly as it would be if no sweep had ever run.
C14_SweepInvisible ==
  /\ last # NoDecision => last.res = last.resUnswept
  /\ \A k \in DOMAIN unswept :
       ~(now > unswept[k].resetTime)
         => (k \in DOMAIN rateLimitStore /\ rateLimitStore[k] = unswept[k])

\* C15: every entry has a count from 1 to 4 and is blocked exactly when its
\* count is 4; the resetTime of an entry that is not blocked is the time of
\* the attempt that created it plus 60 s, that of a blocked entry the time of
\* the attempt that set the block plus 300 s.
C15_EntryShape ==
  \A k \in DOMAIN rateLimitStore :
    LET e == rateLimitStore[k]
    IN /\ e.count \in 1..4
       /\ e.blocked <=> (e.count = 4)
       /\ k \in DOMAIN born
       /\ ~e.blocked => e.resetTime = born[k].createdAt + 60 * 1000
       /\ e.blocked => (born[k].blockedAt >= 0
                        /\ e.resetTime = born[k].blockedAt + 300 * 1000)

\* the Map holds a blocked entry whose block was set later than the entry was
\* created, and an entry that is counting
C15_Witness ==
  \E k, j \in DOMAIN rateLimitStore :
    /\ rateLimitStore[k].blocked /\ rateLimitStore[k].count = 4
    /\ born[k].blockedAt > born[k].createdAt
    /\ ~rateLimitStore[j].blocked /\ rateLimitStore[j].count = 2

\* C16: a check leaves the entries of all other identifiers as they are; a
\* check denied because the identifier is already blocked leaves the whole
\* Map as it is; and a check of a blocked identifier made later than 300 s
\* after the attempt that set the block is allowed with a fresh entry of
\* count 1.
C16_BlockedDenialChangesNothing ==
  [][ last' # NoDecision =>
        LET k == last'.key
        IN /\ \A j \in DOMAIN rateLimitStore \ {k} :
                j \in DOMAIN rateLimitStore' /\ rateLimitStore'[j] = rateLimitStore[j]
           /\ DOMAIN rateLimitStore' = DOMAIN rateLimitStore \cup {k}
           /\ last'.res = "blocked" => rateLimitStore' = rateLimitStore
           /\ (/\ k \in DOMAIN rateLimitStore
               /\ rateLimitStore[k].blocked
               /\ now > born[k].blockedAt + 300 * 1000)
                => /\ last'.res = "fresh"
                   /\ rateLimitStore'[k] = [count |-> 1, blocked |-> FALSE,
                                            resetTime |-> now + 60 * 1000]
    ]_vars

\* an identifier was blocked, denied again during the block, and allowed
\* with a fresh entry at the first attempt after the block, 300 s after that
\* denial, while another identifier's entry stayed as it was
C16_Witness ==
  \E k \in Watched :
    /\ Decided(k) /\ last.res = "fresh"
    /\ born[k].createdAt = now /\ rateLimitStore[k].count = 1
    /\ hist[k].denyAt >= 0 /\ now = hist[k].denyAt + 300 * 1000
    /\ hist[k].blockAt >= 0 /\ hist[k].blockAt < hist[k].denyAt
    /\ \E j \in DOMAIN rateLimitStore : j # k

\* a sweep has deleted the expired entry of an identifier and kept the entry
\* of a blocked one, at the last instant of its block; a check of the blocked
\* identifier was then denied
C14_Witness ==
  /\ last # NoDecision /\ last.res = "blocked"
  /\ now = rateLimitStore[last.key].resetTime
  /\ lastSweep = now
  /\ \E k \in DOMAIN unswept : k \notin DOMAIN rateLimitStore

----------------------------------------------------------------------------
(* Claims about the send-otp responses *)

\* the outcomes of the gateway that C12 is about, and the two answers given
\* before the gateway is reached
C12_Outcomes == {"invalid", "limited", "pending", "other", "errCode", "notConfigured"}

\* the terminal state of a response: which of the ways to end it is
C12_Terminal ==
  IF resp.status = 200 /\ resp.msg = "OTP sent successfully" THEN "OTP sent"
  ELSE IF resp.status = 429 /\ resp.result = "limited" THEN "rate limited"
  ELSE IF resp.status = 400 /\ resp.result = "invalid" THEN "invalid phone"
  ELSE IF resp.status = 400 /\ resp.msg = "parseTwilioError" THEN "provider rejected"
  ELSE IF resp.status = 500 /\ resp.msg = "SMS service not configured"
    THEN "misconfigured"
  ELSE IF resp.status = 500 /\ resp.msg = "Failed to send OTP. Please try again."
    THEN "failed to send"
  ELSE "other"

\* C12 as stated: every send-otp response, for every outcome of the gateway
\* named in the claim, is one of the five terminal states OTP sent, rate
\* limited, invalid phone, provider rejected, misconfigured.  A verification
\* whose status is not 'pending' is answered 500 'Failed to send OTP', which
\* is none of the five.
C12_FiveTerminalStates ==
  resp.result \in C12_Outcomes =>
    C12_Terminal \in {"OTP sent", "rate limited", "invalid phone",
                      "provider rejected", "misconfigured"}

\* C12 amended: every send-otp response is one of six terminal states, by the
\* outcome that led to it: status pending - 200 OTP sent; a status other than
\* pending - 500 failed to send; a provider error with a code or status - 400
\* provider rejected; missing credentials or service id - 500 misconfigured;
\* an invalid phone - 400; a rate-limited request - 429.
C12_SixTerminalStates ==
  resp.result \in C12_Outcomes =>
    C12_Terminal =
      CASE resp.result = "pending"       -> "OTP sent"
        [] resp.result = "limited"       -> "rate limited"
        [] resp.result = "invalid"       -> "invalid phone"
        [] resp.result = "errCode"       -> "provider rejected"
        [] resp.result = "notConfigured" -> "misconfigured"
        [] resp.result = "other"         -> "failed to send"

\* the digits of a phone that passes the validation of send-otp after
\* normalization
C17_ValidKey(k) ==
  /\ StartsWith(Chars(k), <<"9", "1">>)
  /\ MatchesMobile(SubSeq(Chars(k), 3, Len(Chars(k))))

\* C17: the Map only ever holds identifiers of valid phones, and a request
\* answered 400 for its phone leaves the Map alone and calls no gateway; a
\* request answered 429 calls no gateway; a gateway call is only started by
\* an allowed attempt, in the step that counted it; and the reply of the
\* gateway, whatever it is, leaves the Map alone, so that an attempt whose
\* call failed stays counted.
C17_OrderOfSteps ==
  /\ [](\A k \in DOMAIN rateLimitStore : C17_ValidKey(k))
  /\ [][ /\ resp'.result = "invalid"
             => (rateLimitStore' = rateLimitStore /\ sending' = sending)
         /\ resp'.status = 429 => sending' = sending
         /\ sending' = sending + 1
             => /\ Allowed(last'.res)
                /\ rateLimitStore'[last'.key].count
                     = IF last'.res = "fresh" THEN 1
                       ELSE rateLimitStore[last'.key].count + 1
         /\ sending' = sending - 1 => rateLimitStore' = rateLimitStore
       ]_vars

\* three attempts of one identifier were counted although the provider
\* rejected the last call, and no call is pending any more
C17_Witness ==
  /\ resp.result = "errCode" /\ resp.status = 400
  /\ sending = 0
  /\ WatchedKey \in DOMAIN rateLimitStore
  /\ rateLimitStore[WatchedKey].count = 3

\* the provider answered a pending call with a status other than 'pending'
\* and the request was answered 500 'Failed to send OTP'
C12_Witness ==
  /\ resp.result = "other" /\ resp.status = 500
  /\ resp.msg = "Failed to send OTP. Please try again."

----------------------------------------------------------------------------
(* Claims about normalizePhone *)

\* C13: normalizing a normalized phone returns it unchanged, for every phone
\* written with digits, '+', space and '-'; and 9876543210, 919876543210 and
\* +919876543210 all normalize to +919876543210.
C13_NormalizeIdempotent ==
  [][ /\ (passes = 1 /\ passes' = 2) => bodyPhone' = bodyPhone
      /\ (passes = 0 /\ passes' = 1 /\ bodyPhone \in NormExamples)
           => bodyPhone' = Chars(RawE164)
    ]_vars

\* a phone written with separators and without prefix was normalized twice:
\* the first pass changed it, the second left it alone
C13_Witness ==
  /\ passes = 2
  /\ normInput = <<"9", "1", "-">> \o Run(10)
  /\ bodyPhone = <<"+", "9", "1">> \o Run(10)

====
